---- MODULE Spec2Model ----
(***************************************************************************)
(* Model of covid-19.py: the COVID-19 data tracker.                        *)
(*                                                                         *)
(* A DataFrame is a sequence of rows; a row is a record with one cell per  *)
(* column.  A cell is a tagged value: NA (pandas NaN / NaT), a number, a   *)
(* string (a sequence of code points, so that Python's string order can    *)
(* be computed) or a date (a day number).  Counts are whole numbers, as    *)
(* the cumulative counts of the dataset are.                               *)
(***************************************************************************)
EXTENDS Integers, Sequences, FiniteSets, TLC

VARIABLES
    pc,          \* position of main(): "start", "menu", "country", "done",
                 \* "raised"; "call" in the specifications of the functions
    df,          \* main's df: the value load_covid_data returned
    df_cleaned,  \* main's df_cleaned
    choice,      \* main's local choice (line 121)
    country,     \* main's local country (lines 124 and 134)
    out,         \* what was printed since the previous input() call
    ret          \* the value returned by the last direct function call

vars == <<pc, df, df_cleaned, choice, country, out, ret>>

----------------------------------------------------------------------------
(* Bounds of the model *)

MaxRows == 2
MaxLocRows == 4
MaxAbsent == 2
MaxCount == 2
MaxDate == 2
MaxCases == 33

----------------------------------------------------------------------------
(* Cells *)

NA == [kind |-> "NA", n |-> 0, s |-> <<>>]
Num(x) == [kind |-> "num", n |-> x, s |-> <<>>]
Str(x) == [kind |-> "str", n |-> 0, s |-> x]
Date(x) == [kind |-> "date", n |-> x, s |-> <<>>]
Unbound == [kind |-> "unbound", n |-> 0, s |-> <<>>]

isna(c) == c.kind = "NA"

Columns ==
    {"location", "date", "total_cases", "total_deaths",
     "new_cases", "new_deaths", "total_vaccinations"}

Row(loc, date, tc, td, nc, nd, tv) ==
    [location |-> loc, date |-> date, total_cases |-> tc, total_deaths |-> td,
     new_cases |-> nc, new_deaths |-> nd, total_vaccinations |-> tv]

\* The value of main's df / df_cleaned: None, or a DataFrame with its rows.
None == [isNone |-> TRUE, rows |-> <<>>]
DataFrame(rows) == [isNone |-> FALSE, rows |-> rows]

\* Strings, as code points.
Aland == <<65, 108, 97, 110, 100>>
Brazil == <<66, 114, 97, 122, 105, 108>>
Chad == <<67, 104, 97, 100>>
brazil == <<98, 114, 97, 122, 105, 108>>
Testland == <<84, 101, 115, 116, 108, 97, 110, 100>>
Emptyland == <<69, 109, 112, 116, 121, 108, 97, 110, 100>>

----------------------------------------------------------------------------
(* clean_data *)

\* A mutation of dropna: how='any' instead of how='all'.
dropna_any(rows) ==
    SelectSeq(rows, LAMBDA r : ~isna(r.total_cases) /\ ~isna(r.total_deaths))

\* df.dropna(subset=['total_cases', 'total_deaths'], how='all')
dropna(rows) ==
    SelectSeq(rows, LAMBDA r : ~(isna(r.total_cases) /\ isna(r.total_deaths)))

\* A mutation of fillna: only the crucial columns are filled.
fillna_crucial(rows) ==
    [i \in 1..Len(rows) |->
        [c \in Columns |->
            IF c \in {"total_cases", "total_deaths"} /\ isna(rows[i][c])
            THEN Num(0) ELSE rows[i][c]]]

\* df_cleaned.fillna(0): every NA cell of every column becomes the number 0.
fillna(rows) ==
    [i \in 1..Len(rows) |->
        [c \in Columns |-> IF isna(rows[i][c]) THEN Num(0) ELSE rows[i][c]]]

clean_data(rows) == fillna(dropna(rows))

----------------------------------------------------------------------------
(* get_country_data, get_available_countries *)

Lower(ch) == IF ch >= 65 /\ ch <= 90 THEN ch + 32 ELSE ch
LowerStr(s) == [i \in 1..Len(s) |-> Lower(s[i])]

\* A mutation of get_country_data: the comparison ignores case.
get_country_data_nocase(rows, name) ==
    SelectSeq(rows, LAMBDA r :
        r.location.kind = "str" /\ LowerStr(r.location.s) = LowerStr(name))

\* df[df['location'] == country].copy(): a non-string cell equals no string.
get_country_data(rows, name) ==
    SelectSeq(rows, LAMBDA r : r.location = Str(name))

\* Python's < on strings: by code point, a proper prefix first.
RECURSIVE StrLess(_, _)
StrLess(a, b) ==
    IF b = <<>> THEN FALSE
    ELSE IF a = <<>> THEN TRUE
    ELSE IF Head(a) # Head(b) THEN Head(a) < Head(b)
    ELSE StrLess(Tail(a), Tail(b))

\* Python's < on two cells of the same comparable kind.
CellLess(a, b) ==
    IF a.kind = "str" /\ b.kind = "str" THEN StrLess(a.s, b.s)
    ELSE a.n < b.n

InSeq(x, s) == \E i \in 1..Len(s) : s[i] = x

\* Series.unique(): the distinct values in order of first appearance.
RECURSIVE unique(_)
unique(cells) ==
    IF cells = <<>> THEN <<>>
    ELSE LET front == unique(SubSeq(cells, 1, Len(cells) - 1))
             last == cells[Len(cells)]
         IN IF InSeq(last, front) THEN front ELSE Append(front, last)

\* Insertion of x into the sorted sequence s, after the elements not above it.
RECURSIVE insert(_, _)
insert(x, s) ==
    IF s = <<>> THEN <<x>>
    ELSE IF CellLess(x, Head(s)) THEN <<x>> \o s
    ELSE <<Head(s)>> \o insert(x, Tail(s))

RECURSIVE sorted(_)
sorted(cells) ==
    IF cells = <<>> THEN <<>>
    ELSE insert(cells[Len(cells)], sorted(SubSeq(cells, 1, Len(cells) - 1)))

\* sorted() raises TypeError when it has to compare a str with a number.
Unorderable(cells) ==
    \E i, j \in 1..Len(cells) : cells[i].kind = "str" /\ cells[j].kind # "str"

locations(rows) == [i \in 1..Len(rows) |-> rows[i].location]

\* A mutation of get_available_countries: the values are not deduplicated.
get_available_countries_dups(rows) ==
    IF Unorderable(locations(rows))
    THEN [err |-> "TypeError", cells |-> <<>>]
    ELSE [err |-> "", cells |-> sorted(locations(rows))]

\* sorted(df['location'].unique())
get_available_countries(rows) ==
    IF Unorderable(unique(locations(rows)))
    THEN [err |-> "TypeError", cells |-> <<>>]
    ELSE [err |-> "", cells |-> sorted(unique(locations(rows)))]

----------------------------------------------------------------------------
(* display_country_stats, plot_covid_trends *)

\* What display_country_stats printed.  kind is "nodata" (line 87), "stats"
\* (lines 92-102), or the exception raised while printing the statistics.
\* rate is the case fatality rate in hundredths of a percent, as printed.
Printed(kind, date, tc, td, show_vacc, vacc, show_rate, rate) ==
    [kind |-> kind, date |-> date, total_cases |-> tc, total_deaths |-> td,
     show_vacc |-> show_vacc, vacc |-> vacc,
     show_rate |-> show_rate, rate |-> rate]

NoStats == Printed("none", 0, 0, 0, FALSE, 0, FALSE, 0)
NoData == Printed("nodata", 0, 0, 0, FALSE, 0, FALSE, 0)
Raised(e) == Printed(e, 0, 0, 0, FALSE, 0, FALSE, 0)

\* A mutation of death_rate: the third decimal is cut off, not rounded.
death_rate_truncated(td, tc) == (td * 10000) \div tc

\* f"{(total_deaths / total_cases) * 100:.2f}" in hundredths of a percent:
\* the nearest hundredth, an exact tie going to the even one.
death_rate(td, tc) ==
    LET q == (td * 10000) \div tc
        r == (td * 10000) % tc
    IN IF 2 * r < tc THEN q
       ELSE IF 2 * r > tc THEN q + 1
       ELSE IF q % 2 = 0 THEN q ELSE q + 1

\* country_data.iloc[-1]: the last row by position.
latest_data(slice) == slice[Len(slice)]

\* The statistics of one row (lines 92-102).
print_stats(r) ==
    IF r.date.kind = "num" THEN Raised("AttributeError")   \* int has no strftime
    ELSE IF r.date.kind # "date" THEN Raised("ValueError") \* NaT.strftime
    ELSE IF isna(r.total_cases) \/ isna(r.total_deaths)
         THEN Raised("ValueError")                         \* int(nan)
    ELSE LET vacc == r.total_vaccinations.kind = "num" /\ r.total_vaccinations.n > 0
             rate == r.total_cases.n > 0
         IN Printed("stats", r.date.n, r.total_cases.n, r.total_deaths.n,
                    vacc, IF vacc THEN r.total_vaccinations.n ELSE 0,
                    rate, IF rate THEN death_rate(r.total_deaths.n, r.total_cases.n)
                          ELSE 0)

\* A mutation of display_country_stats: the empty slice is not checked.
display_country_stats_unchecked(rows, name) ==
    LET country_data == get_country_data(rows, name)
    IN IF Len(country_data) = 0 THEN Raised("IndexError")
       ELSE print_stats(latest_data(country_data))

display_country_stats(rows, name) ==
    LET country_data == get_country_data(rows, name)
    IN IF Len(country_data) = 0 THEN NoData
       ELSE print_stats(latest_data(country_data))

\* plot_covid_trends: the rows handed to the charts, none for an empty slice.
plot_covid_trends(rows, name) == get_country_data(rows, name)

----------------------------------------------------------------------------
(* Inputs *)

SeqsUpTo(S, n) == UNION {[1..k -> S] : k \in 0..n}

\* What the fetch can deliver to a session.
SessionRows ==
    {Row(loc, date, cr[1], cr[2], Num(1), Num(0), tv) :
        loc \in {NA, Str(Brazil), Str(Chad)},
        date \in {NA, Date(1)},
        cr \in {<<NA, NA>>, <<Num(2), Num(1)>>},
        tv \in {NA, Num(5)}}

SessionDatasets == SeqsUpTo(SessionRows, MaxRows)

CountryInputs == {Brazil, Chad, brazil}
InvalidChoices == {<<52>>, <<>>}

----------------------------------------------------------------------------
(* main *)

Out(msgs, stats, chart, listing) ==
    [msgs |-> msgs, stats |-> stats, chart |-> chart, listing |-> listing]

NoOut == Out(<<>>, NoStats, <<>>, <<>>)

NoRet ==
    [fn |-> "", name |-> <<>>, rows |-> <<>>,
     avail |-> [err |-> "", cells |-> <<>>], stats |-> NoStats]

Init ==
    /\ pc = "start"
    /\ df = None
    /\ df_cleaned = None
    /\ choice = Unbound
    /\ country = Unbound
    /\ out = NoOut
    /\ ret = NoRet

\* Lines 107-121 when read_csv succeeds: load, clean, print the menu.
LoadOk ==
    /\ pc = "start"
    /\ \E d \in SessionDatasets :
          /\ df' = DataFrame(d)
          /\ df_cleaned' = DataFrame(clean_data(d))
    /\ out' = Out(<<"loading", "loaded", "menu">>, NoStats, <<>>, <<>>)
    /\ pc' = "menu"
    /\ UNCHANGED <<choice, country, ret>>

\* A mutation of LoadFail: main goes on to the menu without a dataset.
LoadFailContinues ==
    /\ pc = "start"
    /\ df' = None
    /\ df_cleaned' = DataFrame(<<>>)
    /\ out' = Out(<<"loading", "error loading data", "menu">>, NoStats, <<>>, <<>>)
    /\ pc' = "menu"
    /\ UNCHANGED <<choice, country, ret>>

\* Lines 107-110 when read_csv raises: report, return None, main returns.
LoadFail ==
    /\ pc = "start"
    /\ df' = None
    /\ out' = Out(<<"loading", "error loading data">>, NoStats, <<>>, <<>>)
    /\ pc' = "done"
    /\ UNCHANGED <<df_cleaned, choice, country, ret>>

\* choice == '1': ask for the country name.
ChooseView ==
    /\ pc = "menu"
    /\ choice' = Str(<<49>>)
    /\ out' = NoOut
    /\ pc' = "country"
    /\ UNCHANGED <<df, df_cleaned, country, ret>>

\* Lines 124-129, and the menu printed again.
EnterCountry ==
    /\ pc = "country"
    /\ \E c \in CountryInputs :
          /\ country' = Str(c)
          /\ IF InSeq(Str(c), locations(df_cleaned.rows))
             THEN LET stats == display_country_stats(df_cleaned.rows, c)
                  IN IF stats.kind \in {"stats", "nodata"}
                     THEN /\ out' = Out(<<"stats", "chart", "menu">>, stats,
                                        plot_covid_trends(df_cleaned.rows, c), <<>>)
                          /\ pc' = "menu"
                     ELSE /\ out' = Out(<<stats.kind>>, stats, <<>>, <<>>)
                          /\ pc' = "raised"
             ELSE /\ out' = Out(<<"country not found", "menu">>, NoStats, <<>>, <<>>)
                  /\ pc' = "menu"
    /\ UNCHANGED <<df, df_cleaned, choice, ret>>

\* choice == '2': lines 132-135, and the menu printed again.
ChooseList ==
    /\ pc = "menu"
    /\ choice' = Str(<<50>>)
    /\ LET countries == get_available_countries(df_cleaned.rows)
       IN IF countries.err # ""
          THEN /\ out' = Out(<<countries.err>>, NoStats, <<>>, <<>>)
               /\ pc' = "raised"
               /\ UNCHANGED country
          ELSE /\ out' = Out(<<"available countries", "menu">>, NoStats, <<>>,
                             countries.cells)
               /\ pc' = "menu"
               /\ country' = IF countries.cells = <<>> THEN country
                             ELSE countries.cells[Len(countries.cells)]
    /\ UNCHANGED <<df, df_cleaned, ret>>

\* choice == '3': thank the user and leave the loop.
ChooseExit ==
    /\ pc = "menu"
    /\ choice' = Str(<<51>>)
    /\ out' = Out(<<"thank you">>, NoStats, <<>>, <<>>)
    /\ pc' = "done"
    /\ UNCHANGED <<df, df_cleaned, country, ret>>

\* A mutation of ChooseInvalid: an invalid choice ends the loop.
ChooseInvalidExits ==
    /\ pc = "menu"
    /\ \E c \in InvalidChoices : choice' = Str(c)
    /\ out' = Out(<<"invalid choice">>, NoStats, <<>>, <<>>)
    /\ pc' = "done"
    /\ UNCHANGED <<df, df_cleaned, country, ret>>

\* Any other choice: report it and print the menu again.
ChooseInvalid ==
    /\ pc = "menu"
    /\ \E c \in InvalidChoices : choice' = Str(c)
    /\ out' = Out(<<"invalid choice", "menu">>, NoStats, <<>>, <<>>)
    /\ pc' = "menu"
    /\ UNCHANGED <<df, df_cleaned, country, ret>>

Next ==
    \/ LoadOk
    \/ LoadFail
    \/ ChooseView
    \/ EnterCountry
    \/ ChooseList
    \/ ChooseExit
    \/ ChooseInvalid

Spec == Init /\ [][Next]_vars

----------------------------------------------------------------------------
(* The functions called directly, on datasets drawn from bounded sets *)

\* The row with the columns of A absent and the others present.
NARow(A) ==
    LET present == Row(Str(Chad), Date(1), Num(3), Num(1), Num(2), Num(1), Num(5))
    IN [c \in Columns |-> IF c \in A THEN NA ELSE present[c]]

NARows ==
    {NARow(A) : A \in {B \in SUBSET Columns :
                          Cardinality(B) <= MaxAbsent \/ B = Columns}}

NADatasets == SeqsUpTo(NARows, MaxRows)

LocRows ==
    {Row(loc, Date(d), Num(3), Num(1), Num(2), Num(1), NA) :
        loc \in {NA, Str(Aland), Str(Brazil), Str(Chad)}, d \in {1, 2}}

LocDatasets == SeqsUpTo(LocRows, MaxLocRows)

QueryNames == {Aland, Brazil, Chad, brazil}

StatsRows ==
    {Row(Str(loc), Date(d), tc, td, Num(1), Num(0), NA) :
        loc \in {Brazil, Chad}, d \in 1..MaxDate,
        tc \in {NA} \cup {Num(x) : x \in 1..MaxCount},
        td \in {NA, Num(1)}}

RateRows ==
    {Row(Str(Brazil), Date(1), Num(tc), Num(td), Num(1), Num(0), tv) :
        tc \in 0..MaxCases, td \in 0..MaxCases, tv \in {NA, Num(0), Num(7)}}

\* The scenarios of the specification's section 8.
Scenarios ==
    {<<Row(Str(Testland), Date(1), Num(100), Num(2), NA, NA, NA),
       Row(Str(Testland), Date(2), Num(150), Num(3), NA, NA, NA)>>,
     <<Row(Str(Emptyland), Date(1), NA, NA, NA, NA, NA)>>}

StatsDatasets ==
    SeqsUpTo(StatsRows, MaxRows) \cup {<<r>> : r \in RateRows} \cup Scenarios

StatsNames == {Brazil, Chad, Testland, Emptyland}

Ret(fn, name, rows, avail, stats) ==
    [fn |-> fn, name |-> name, rows |-> rows, avail |-> avail, stats |-> stats]

InitCall(datasets) ==
    /\ pc = "call"
    /\ df \in {DataFrame(d) : d \in datasets}
    /\ df_cleaned = None
    /\ choice = Unbound
    /\ country = Unbound
    /\ out = NoOut
    /\ ret = NoRet

\* df_cleaned = clean_data(df)
CallCleanData ==
    /\ pc = "call"
    /\ df_cleaned.isNone
    /\ df_cleaned' = DataFrame(clean_data(df.rows))
    /\ UNCHANGED <<pc, df, choice, country, out, ret>>

\* get_country_data(df, name)
CallGetCountryData ==
    /\ pc = "call"
    /\ \E name \in QueryNames :
          ret' = Ret("get_country_data", name, get_country_data(df.rows, name),
                     NoRet.avail, NoStats)
    /\ UNCHANGED <<pc, df, df_cleaned, choice, country, out>>

\* get_available_countries(df)
CallGetAvailableCountries ==
    /\ pc = "call"
    /\ ret' = Ret("get_available_countries", <<>>, <<>>,
                  get_available_countries(df.rows), NoStats)
    /\ UNCHANGED <<pc, df, df_cleaned, choice, country, out>>

\* display_country_stats(df_cleaned, name)
CallDisplayCountryStats ==
    /\ pc = "call"
    /\ ~df_cleaned.isNone
    /\ \E name \in StatsNames :
          ret' = Ret("display_country_stats", name, <<>>, NoRet.avail,
                     display_country_stats(df_cleaned.rows, name))
    /\ UNCHANGED <<pc, df, df_cleaned, choice, country, out>>

InitClean == InitCall(NADatasets)
NextClean == CallCleanData
SpecClean == InitClean /\ [][NextClean]_vars

InitQuery == InitCall(LocDatasets)
NextQuery == CallGetCountryData \/ CallGetAvailableCountries
SpecQuery == InitQuery /\ [][NextQuery]_vars

InitStats == InitCall(StatsDatasets)
NextStats == CallCleanData \/ CallDisplayCountryStats
SpecStats == InitStats /\ [][NextStats]_vars

----------------------------------------------------------------------------
(* Properties *)

\* The k-th smallest element of the set S of indexes is the i with Rank(S, i) = k.
Rank(S, i) == Cardinality({k \in S : k <= i})

\* slice is exactly the rows of rows at the indexes of S, in their order,
\* where same(a, b) says that row b of the slice stands for row a.
IsSubsequenceAt(slice, rows, S, same(_, _)) ==
    /\ Len(slice) = Cardinality(S)
    /\ \A i \in S : same(rows[i], slice[Rank(S, i)])

HasCrucial(r) == ~isna(r.total_cases) \/ ~isna(r.total_deaths)

Cleaned == pc = "call" /\ ~df_cleaned.isNone

\* C1: clean_data(D) holds exactly the rows of D with total_cases or
\* total_deaths present, in their original relative order: each row with both
\* absent is removed, no other row is, and each kept row is the row it comes
\* from: the same values where one was present, absent or 0 elsewhere.
C1_CleanKeepsRowsWithACrucialValue ==
    Cleaned =>
        IsSubsequenceAt(df_cleaned.rows, df.rows,
            {i \in 1..Len(df.rows) : HasCrucial(df.rows[i])},
            LAMBDA a, b : \A c \in Columns :
                IF isna(a[c]) THEN b[c] \in {NA, Num(0)} ELSE b[c] = a[c])

C1_Witness ==
    /\ Cleaned
    /\ Len(df.rows) = 2
    /\ ~HasCrucial(df.rows[1])
    /\ isna(df.rows[2].total_cases) /\ ~isna(df.rows[2].total_deaths)
    /\ Len(df_cleaned.rows) = 1

\* C2: in every row that survives clean_data no column is absent: a column
\* that was absent in the input row is the number 0, whichever column it is,
\* and a column that was present keeps its value.
C2_NoAbsentFieldAfterCleaning ==
    Cleaned =>
        LET S == {i \in 1..Len(df.rows) : HasCrucial(df.rows[i])}
        IN /\ \A j \in 1..Len(df_cleaned.rows), c \in Columns :
                 ~isna(df_cleaned.rows[j][c])
           /\ \A i \in S, c \in Columns :
                 /\ Rank(S, i) <= Len(df_cleaned.rows)
                 /\ df_cleaned.rows[Rank(S, i)][c] =
                        IF isna(df.rows[i][c]) THEN Num(0) ELSE df.rows[i][c]

C2_Witness ==
    /\ Cleaned
    /\ Len(df_cleaned.rows) = 1
    /\ isna(df.rows[1].location) /\ isna(df.rows[1].total_deaths)
    /\ df_cleaned.rows[1].location = Num(0)
    /\ df_cleaned.rows[1].total_deaths = Num(0)
    /\ df_cleaned.rows[1].total_cases = Num(3)

\* Exact, case-sensitive equality of a location cell with a name.
Matches(r, name) ==
    /\ r.location.kind = "str"
    /\ Len(r.location.s) = Len(name)
    /\ \A k \in 1..Len(name) : r.location.s[k] = name[k]

\* C3: get_country_data(D, name) is exactly the rows of D whose location is
\* name, compared exactly and case-sensitively, in their original relative
\* order; it is the empty slice when no row of D has that location.
C3_SliceIsTheRowsOfTheLocation ==
    ret.fn = "get_country_data" =>
        /\ IsSubsequenceAt(ret.rows, df.rows,
              {i \in 1..Len(df.rows) : Matches(df.rows[i], ret.name)},
              LAMBDA a, b : b = a)
        /\ (\A i \in 1..Len(df.rows) : ~Matches(df.rows[i], ret.name))
              => ret.rows = <<>>

C3_Witness ==
    /\ ret.fn = "get_country_data"
    /\ ret.name = Brazil
    /\ Len(df.rows) = 4
    /\ df.rows[2].location = Str(Chad)
    /\ df.rows[4].location = NA
    /\ Len(ret.rows) = 2
    /\ ret.rows[1] = df.rows[1] /\ ret.rows[2] = df.rows[3]
    /\ df.rows[1] # df.rows[3]

\* Lexicographic order by code point, stated by the first differing position.
LexBefore(a, b) ==
    \E k \in 1..(Len(a) + 1) :
        /\ \A i \in 1..(k - 1) : i <= Len(b) /\ a[i] = b[i]
        /\ k <= Len(b)
        /\ k <= Len(a) => a[k] < b[k]

AllLocationsAreStrings(rows) ==
    \A i \in 1..Len(rows) : rows[i].location.kind = "str"

\* C7: for a Dataset whose locations are strings, get_available_countries
\* is in strictly ascending lexicographic order (sorted, no duplicates), each
\* of its elements is the location of some row, and the locations Brazil,
\* Chad, Brazil, Aland give exactly Aland, Brazil, Chad.
C7_AvailableCountriesSortedDistinct ==
    (ret.fn = "get_available_countries" /\ AllLocationsAreStrings(df.rows)) =>
        LET cells == ret.avail.cells
        IN /\ ret.avail.err = ""
           /\ \A i \in 1..Len(cells) : cells[i].kind = "str"
           /\ \A i \in 1..(Len(cells) - 1) : LexBefore(cells[i].s, cells[i + 1].s)
           /\ \A i \in 1..Len(cells) :
                 \E j \in 1..Len(df.rows) : df.rows[j].location = cells[i]
           /\ locations(df.rows) = <<Str(Brazil), Str(Chad), Str(Brazil), Str(Aland)>>
                 => cells = <<Str(Aland), Str(Brazil), Str(Chad)>>

C7_Witness ==
    /\ ret.fn = "get_available_countries"
    /\ locations(df.rows) = <<Str(Brazil), Str(Chad), Str(Brazil), Str(Aland)>>
    /\ ret.avail.cells = <<Str(Aland), Str(Brazil), Str(Chad)>>

Displayed == ret.fn = "display_country_stats"

\* The slice display_country_stats was given: the cleaned rows of ret.name.
DisplayedSlice ==
    SelectSeq(df_cleaned.rows, LAMBDA r : Matches(r, ret.name))

\* The index of the row with the maximum date, the last one on ties.
MaxDateIndex(slice) ==
    CHOOSE i \in 1..Len(slice) :
        \A j \in 1..Len(slice) :
            \/ slice[j].date.n < slice[i].date.n
            \/ slice[j].date.n = slice[i].date.n /\ j <= i

\* C4: for every non-empty slice, in any order of its rows, the statistics
\* shown are those of the row with the maximum date, the last one in slice
\* order among the rows that share it.
C4_StatsOfTheMaximumDate ==
    (Displayed /\ DisplayedSlice # <<>>) =>
        LET r == DisplayedSlice[MaxDateIndex(DisplayedSlice)]
        IN /\ ret.stats.kind = "stats"
           /\ ret.stats.date = r.date.n
           /\ ret.stats.total_cases = r.total_cases.n
           /\ ret.stats.total_deaths = r.total_deaths.n

\* C5: display_country_stats on an empty slice reports no data and prints no
\* statistics (no totals, no rate); a location whose rows all have both
\* total_cases and total_deaths absent has no row left after clean_data, so
\* its slice of the cleaned Dataset is empty and no data is reported for it.
C5_EmptySliceReportsNoData ==
    Displayed =>
        /\ DisplayedSlice = <<>> => ret.stats = NoData
        /\ (\A i \in 1..Len(df.rows) :
               Matches(df.rows[i], ret.name) => ~HasCrucial(df.rows[i]))
              => DisplayedSlice = <<>> /\ ret.stats.kind = "nodata"

C5_Witness ==
    /\ Displayed
    /\ ret.name = Chad
    /\ Len(df.rows) = 2
    /\ df.rows[1].location = Str(Chad) /\ ~HasCrucial(df.rows[1])
    /\ df.rows[2].location = Str(Brazil) /\ HasCrucial(df.rows[2])
    /\ ret.stats = NoData

\* C6: for the row display_country_stats takes as the latest of a non-empty
\* slice, the case fatality rate is not printed when total_cases is 0, and
\* otherwise the printed rate is total_deaths / total_cases * 100 rounded to
\* two decimals: a hundredth nearest to it.
C6_CaseFatalityRate ==
    (Displayed /\ DisplayedSlice # <<>>) =>
        LET r == DisplayedSlice[Len(DisplayedSlice)]
            tc == r.total_cases.n
            td == r.total_deaths.n
            diff == ret.stats.rate * tc - 10000 * td
        IN /\ ret.stats.kind = "stats"
           /\ tc = 0 => ~ret.stats.show_rate
           /\ tc > 0 => /\ ret.stats.show_rate
                        /\ 2 * diff <= tc
                        /\ 2 * diff >= -tc

C6_Witness ==
    /\ Displayed
    /\ Len(DisplayedSlice) = 1
    /\ DisplayedSlice[1].total_cases = Num(3)
    /\ DisplayedSlice[1].total_deaths = Num(2)
    /\ ret.stats.show_rate
    /\ ret.stats.rate = 6667

\* C8: when the fetch fails the failure is reported and main ends: nothing is
\* cleaned, the menu is not shown and no input is read.
C8_FetchFailureAbortsTheSession ==
    (pc # "start" /\ pc # "call" /\ df.isNone) =>
        /\ pc = "done"
        /\ df_cleaned.isNone
        /\ choice = Unbound
        /\ country = Unbound
        /\ out = Out(<<"loading", "error loading data">>, NoStats, <<>>, <<>>)

C8_Witness == pc = "done" /\ df.isNone /\ out.msgs[2] = "error loading data"

Found(c) == \E i \in 1..Len(df_cleaned.rows) : Matches(df_cleaned.rows[i], c.s)

\* C9: in the menu loop a country name that matches no location of the
\* cleaned Dataset gets the not-found message and the menu again, with no
\* statistics and no chart; a choice other than 1, 2 or 3 gets the
\* invalid-choice message and the menu again; and main leaves the loop only
\* on choice 3.
C9_RecoverableErrorsReturnToTheMenu ==
    [][/\ (pc = "country" /\ ~Found(country')) =>
              /\ pc' = "menu"
              /\ out' = Out(<<"country not found", "menu">>, NoStats, <<>>, <<>>)
       /\ (pc = "menu" /\ choice' \notin {Str(<<49>>), Str(<<50>>), Str(<<51>>)}) =>
              /\ pc' = "menu"
              /\ out' = Out(<<"invalid choice", "menu">>, NoStats, <<>>, <<>>)
       /\ (pc \in {"menu", "country"} /\ pc' = "done") =>
              pc = "menu" /\ choice' = Str(<<51>>)]_vars

C9_Witness ==
    /\ pc = "menu"
    /\ choice = Str(<<49>>)
    /\ country = Str(brazil)
    /\ Found(Str(Brazil))
    /\ out.msgs = <<"country not found", "menu">>

\* C10: no exception escapes the loop of main, whatever the cleaned Dataset
\* (also with a location, date or total_vaccinations that was absent and is
\* now 0) and whatever the inputs.
C10_NoExceptionEscapesTheLoop == pc # "raised"

====
